---- MODULE Spec2Model ----
(***************************************************************************)
(* A model of search_log.go: the resolver of rotated log files             *)
(* (resolveFiles), the probes it uses (readFirstValidLog,                  *)
(* readLastValidLog, readLastLines), the line parser (parseLogItem,        *)
(* parseTimeStamp, ParseLogLevel) and the log iterator (logIterator.next,  *)
(* logIterator.close).                                                     *)
(*                                                                         *)
(* A Go string or []byte is a sequence of one-character strings, one per   *)
(* byte.  Offsets and indexes keep Go's 0-based convention; Slice(s, a, b) *)
(* is Go's s[a:b].                                                         *)
(***************************************************************************)
EXTENDS Integers, Sequences, FiniteSets, TLC

----------------------------------------------------------------------------
(* Strings *)

\* s[lo:hi]
Slice(s, lo, hi) == SubSeq(s, lo + 1, hi)

\* the least of a set of indexes, none when it is empty: where a scan from
\* the lowest index on stops
FirstOf(at, none) == IF at = {} THEN none ELSE CHOOSE j \in at : \A k \in at : j <= k

\* the 0-based index of the first byte c of s at or after 0-based offset i, or -1
IndexFrom(s, c, i) == FirstOf({j \in i..(Len(s) - 1) : s[j + 1] = c}, -1)

\* strings.Index(s, c) for a one-byte c
Index(s, c) == IndexFrom(s, c, 0)

\* the white space strings.TrimSpace removes (of the bytes the model uses)
IsSpace(c) == c \in {" ", "\t", "\n", "\r"}

RECURSIVE TrimLeft(_)
TrimLeft(s) == IF s # <<>> /\ IsSpace(Head(s)) THEN TrimLeft(Tail(s)) ELSE s

RECURSIVE TrimRight(_)
TrimRight(s) ==
    IF s # <<>> /\ IsSpace(s[Len(s)]) THEN TrimRight(SubSeq(s, 1, Len(s) - 1)) ELSE s

\* strings.TrimSpace
TrimSpace(s) == TrimRight(TrimLeft(s))

----------------------------------------------------------------------------
(* Timestamp / level codec *)

\* len(TimeStampLayout)
timeStampLayoutLen == 30

\* The timestamps of the model: "2019/08/26 06:19:13.00k -04:00", k a digit.
Digits == <<"0", "1", "2", "3", "4", "5", "6", "7", "8", "9">>
Digit(k) == Digits[k + 1]

StampHead ==
    <<"2", "0", "1", "9", "/", "0", "8", "/", "2", "6", " ",
      "0", "6", ":", "1", "9", ":", "1", "3", ".", "0", "0">>
StampTail == <<" ", "-", "0", "4", ":", "0", "0">>

Stamp(k) == StampHead \o <<Digit(k)>> \o StampTail

\* math.MaxInt64, in the model's time unit: above every time a line can carry
MaxInt64 == 2147483647

\* parseTimeStamp: time.Parse(TimeStampLayout, s), as milliseconds.  Times are
\* counted from 2019/08/26 06:19:13.000 -04:00; of the strings of the model
\* exactly the Stamp(k) are in the layout.
parseTimeStamp(s) ==
    IF /\ Len(s) = timeStampLayoutLen
       /\ SubSeq(s, 1, Len(StampHead)) = StampHead
       /\ SubSeq(s, Len(StampHead) + 2, Len(s)) = StampTail
       /\ \E k \in 0..9 : s[Len(StampHead) + 1] = Digit(k)
    THEN [err |-> FALSE, time |-> CHOOSE k \in 0..9 : s[Len(StampHead) + 1] = Digit(k)]
    ELSE [err |-> TRUE, time |-> 0]

\* pb.LogLevel
LogLevel_UNKNOWN == 0
LogLevel_Debug == 1
LogLevel_Info == 2
LogLevel_Warn == 3
LogLevel_Trace == 4
LogLevel_Critical == 5
LogLevel_Error == 6

\* ParseLogLevel without its upper-case spellings
ParseLogLevelLowerOnly(s) ==
    CASE s = <<"d", "e", "b", "u", "g">> -> LogLevel_Debug
      [] s = <<"i", "n", "f", "o">> -> LogLevel_Info
      [] s = <<"w", "a", "r", "n">> -> LogLevel_Warn
      [] s = <<"t", "r", "a", "c", "e">> -> LogLevel_Trace
      [] s = <<"c", "r", "i", "t", "i", "c", "a", "l">> -> LogLevel_Critical
      [] s = <<"e", "r", "r", "o", "r">> -> LogLevel_Error
      [] OTHER -> LogLevel_UNKNOWN

ParseLogLevel(s) ==
    CASE s \in {<<"d", "e", "b", "u", "g">>, <<"D", "E", "B", "U", "G">>} -> LogLevel_Debug
      [] s \in {<<"i", "n", "f", "o">>, <<"I", "N", "F", "O">>} -> LogLevel_Info
      [] s \in {<<"w", "a", "r", "n">>, <<"W", "A", "R", "N">>} -> LogLevel_Warn
      [] s \in {<<"t", "r", "a", "c", "e">>, <<"T", "R", "A", "C", "E">>} -> LogLevel_Trace
      [] s \in {<<"c", "r", "i", "t", "i", "c", "a", "l">>,
                <<"C", "R", "I", "T", "I", "C", "A", "L">>} -> LogLevel_Critical
      [] s \in {<<"e", "r", "r", "o", "r">>, <<"E", "R", "R", "O", "R">>} -> LogLevel_Error
      [] OTHER -> LogLevel_UNKNOWN

----------------------------------------------------------------------------
(* Log-line parser *)

NoItem == [Time |-> -1, Level |-> -1, Message |-> <<>>]

\* parseLogItem: [err, item]
parseLogItem(s) ==
    LET timeLeftBound == Index(s, "[")
        timeRightBound == Index(s, "]")
    IN  IF timeLeftBound = -1 \/ timeRightBound = -1 \/ timeLeftBound > timeRightBound
        THEN [err |-> TRUE, item |-> NoItem]
        ELSE
        LET t == parseTimeStamp(Slice(s, timeLeftBound + 1, timeRightBound))
            rest == Slice(s, timeRightBound + 1, Len(s))
            levelLeftBound == Index(rest, "[")
            levelRightBound == Index(rest, "]")
        IN  IF t.err THEN [err |-> TRUE, item |-> NoItem]
            ELSE IF levelLeftBound = -1 \/ levelRightBound = -1
                    \/ levelLeftBound > levelRightBound
            THEN [err |-> TRUE, item |-> NoItem]
            ELSE [err |-> FALSE,
                  item |-> [Time |-> t.time,
                            Level |-> ParseLogLevel(Slice(s, timeRightBound + 1 + levelLeftBound + 1,
                                                          timeRightBound + 1 + levelRightBound)),
                            Message |-> TrimSpace(Slice(s, timeRightBound + levelRightBound + 2,
                                                        Len(s)))]]

----------------------------------------------------------------------------
(* Line reader *)

\* readLine on a reader at offset pos of a stream holding content: bufio's
\* ReadLine joined over its prefixes.  [eof, line, pos]: the line without its
\* "\n" or "\r\n", and the offset after it; eof when no byte is left.
readLine(content, pos) ==
    IF pos >= Len(content) THEN [eof |-> TRUE, line |-> <<>>, pos |-> pos]
    ELSE
    LET nl == IndexFrom(content, "\n", pos)
        stop == IF nl = -1 THEN Len(content) ELSE nl
        raw == Slice(content, pos, stop)
        line == IF nl # -1 /\ raw # <<>> /\ raw[Len(raw)] = "\r"
                THEN SubSeq(raw, 1, Len(raw) - 1) ELSE raw
    IN  [eof |-> FALSE, line |-> line, pos |-> IF nl = -1 THEN Len(content) ELSE nl + 1]


\* readFirstValidLog(ctx, reader, tryLines) on a fresh reader of content; done
\* says whether ctx is cancelled while the probe runs.  [err, item]
RECURSIVE readFirstValidLogFrom(_, _, _, _, _)
readFirstValidLogFrom(done, content, tryLines, pos, tried) ==
    LET r == readLine(content, pos)
        p == parseLogItem(r.line)
    IN  IF r.eof THEN [err |-> "EOF", item |-> NoItem]
        ELSE IF ~p.err THEN [err |-> "", item |-> p.item]
        ELSE IF tried + 1 >= tryLines THEN [err |-> "not a valid log file", item |-> NoItem]
        ELSE IF done THEN [err |-> "canceled", item |-> NoItem]
        ELSE readFirstValidLogFrom(done, content, tryLines, r.pos, tried + 1)

readFirstValidLog(done, content, tryLines) ==
    readFirstValidLogFrom(done, content, tryLines, 0, 0)

----------------------------------------------------------------------------
(* Backward chunk scanner *)

maxReadCacheSize == 16777216

IsNewline(c) == c \in {"\n", "\r"}

RECURSIVE IndexCRLF(_, _)
\* the 0-based index of the first "\r\n" of s at or after offset i, or -1
IndexCRLF(s, i) ==
    LET cr == IndexFrom(s, "\r", i)
    IN  IF cr = -1 \/ cr + 1 >= Len(s) THEN -1
        ELSE IF s[cr + 2] = "\n" THEN cr
        ELSE IndexCRLF(s, cr + 1)

RECURSIVE ReplaceCRLF(_)
\* strings.ReplaceAll(s, "\r\n", "\n")
ReplaceCRLF(s) ==
    LET i == IndexCRLF(s, 0)
    IN  IF i = -1 THEN s
        ELSE Slice(s, 0, i) \o <<"\n">> \o ReplaceCRLF(Slice(s, i + 2, Len(s)))

RECURSIVE Split(_)
\* strings.Split(s, "\n"): always at least one piece
Split(s) ==
    LET nl == Index(s, "\n")
    IN  IF nl = -1 THEN <<s>>
        ELSE <<Slice(s, 0, nl)>> \o Split(Slice(s, nl + 1, Len(s)))

\* a scan that takes the second byte of a chunk for the start of a line
FirstBoundaryAtStart(chars, lines, i) == IF Len(chars) >= 2 THEN 1 ELSE 0

\* a scan that takes the '\n' or '\r' it finds for the start of a line
FirstBoundaryAtTerminator(chars, lines, i) ==
    FirstOf({j \in i..(Len(chars) - 2) :
                j < Len(lines) - 1 /\ IsNewline(chars[j + 1]) /\ ~IsNewline(chars[j + 2])}, 0)

\* the scan of readLastLines for the first '\n' or '\r' followed by another
\* byte, from index i of chars on: firstNonNewlinePos, 0 when there is none
FirstBoundaryFrom(chars, lines, i) ==
    FirstOf({j + 1 : j \in {k \in i..(Len(chars) - 2) :
                k < Len(lines) - 1 /\ IsNewline(chars[k + 1]) /\ ~IsNewline(chars[k + 2])}}, 0)

RECURSIVE readLastLinesLoop(_, _, _, _, _)
\* the loop of readLastLines; file reads and seeks succeed.  [err, lines, n]
readLastLinesLoop(done, content, lines, cursor, size) ==
    IF cursor <= 0
    THEN [err |-> "", lines |-> Split(ReplaceCRLF(lines)), n |-> Len(lines)]
    ELSE
    LET doubled == IF size * 2 > maxReadCacheSize THEN maxReadCacheSize ELSE size * 2
        size1 == IF cursor < doubled THEN cursor ELSE doubled
        cursor1 == cursor - size1
        chars == Slice(content, cursor1, cursor1 + size1)
        lines1 == chars \o lines
        firstNonNewlinePos == FirstBoundaryFrom(chars, lines1, 0)
        finalStr == Slice(lines1, firstNonNewlinePos, Len(lines1))
    IN  IF firstNonNewlinePos > 0
        THEN [err |-> "", lines |-> Split(ReplaceCRLF(finalStr)), n |-> Len(finalStr)]
        ELSE IF done THEN [err |-> "canceled", lines |-> <<>>, n |-> 0]
        ELSE readLastLinesLoop(done, content, lines1, cursor1, size1)

\* readLastLines(ctx, file, endCursor)
readLastLines(done, content, endCursor) ==
    readLastLinesLoop(done, content, <<>>, endCursor, 256)

RECURSIVE LastParsed(_, _)
\* the backward scan of readLastValidLog over the lines of one chunk: the item
\* of the last line that parses
LastParsed(lines, i) ==
    IF i < 1 THEN [err |-> TRUE, item |-> NoItem]
    ELSE IF ~parseLogItem(lines[i]).err THEN parseLogItem(lines[i])
    ELSE LastParsed(lines, i - 1)

RECURSIVE readLastValidLogFrom(_, _, _, _, _)
readLastValidLogFrom(done, content, tryLines, endCursor, tried) ==
    LET r == readLastLines(done, content, endCursor)
        p == LastParsed(r.lines, Len(r.lines))
    IN  IF r.err # "" THEN [err |-> r.err, item |-> NoItem]
        ELSE IF r.n = 0 THEN [err |-> "not a valid log file", item |-> NoItem]
        ELSE IF ~p.err THEN [err |-> "", item |-> p.item]
        ELSE IF tried + Len(r.lines) >= tryLines
        THEN [err |-> "not a valid log file", item |-> NoItem]
        ELSE readLastValidLogFrom(done, content, tryLines, endCursor - r.n,
                                  tried + Len(r.lines))

\* readLastValidLog(ctx, file, tryLines): endCursor starts at the file's size
readLastValidLog(done, content, tryLines) ==
    readLastValidLogFrom(done, content, tryLines, Len(content), 0)


\* readLastLines when file.Seek or file.Read may fail (ioFail): the call then
\* returns no line, 0 bytes and ctx.Err(), which is nil unless ctx is cancelled
readLastLinesIO(done, content, endCursor, ioFail) ==
    IF ioFail /\ endCursor > 0
    THEN [err |-> IF done THEN "canceled" ELSE "", lines |-> <<>>, n |-> 0]
    ELSE readLastLines(done, content, endCursor)

\* probeRound without the step that moves endCursor back
probeRoundNoAdvance(done, content, tryLines, endCursor, tried, ioFail) ==
    LET r == readLastLinesIO(done, content, endCursor, ioFail)
        p == LastParsed(r.lines, Len(r.lines))
    IN  [ended |-> r.err # "" \/ r.n = 0 \/ ~p.err \/ tried + Len(r.lines) >= tryLines,
         err |-> IF r.err # "" THEN r.err
                 ELSE IF r.n # 0 /\ ~p.err THEN "" ELSE "not a valid log file",
         item |-> IF r.err = "" /\ r.n # 0 THEN p.item ELSE NoItem,
         endCursor |-> endCursor,
         tried |-> tried + Len(r.lines),
         parsed |-> 0]

\* one round of the loop of readLastValidLog, from endCursor and tried:
\* whether the probe ends with it, the error and item it then returns, endCursor
\* and tried after it, and parsed, the number of lines that are not empty which
\* the round gave to parseLogItem
probeRound(done, content, tryLines, endCursor, tried, ioFail) ==
    LET r == readLastLinesIO(done, content, endCursor, ioFail)
        hits == {i \in 1..Len(r.lines) : ~parseLogItem(r.lines[i]).err}
        found == IF hits = {} THEN 0 ELSE CHOOSE i \in hits : \A j \in hits : j <= i
        given == {i \in 1..Len(r.lines) : i >= found /\ r.lines[i] # <<>>}
        stop == [ended |-> TRUE, err |-> "not a valid log file", item |-> NoItem,
                 endCursor |-> endCursor, tried |-> tried, parsed |-> 0]
    IN  IF r.err # "" THEN [stop EXCEPT !.err = r.err]
        ELSE IF r.n = 0 THEN stop
        ELSE IF found # 0
        THEN [stop EXCEPT !.err = "", !.item = parseLogItem(r.lines[found]).item,
                          !.endCursor = endCursor - r.n, !.parsed = Cardinality(given)]
        ELSE IF tried + Len(r.lines) >= tryLines
        THEN [stop EXCEPT !.endCursor = endCursor - r.n, !.tried = tried + Len(r.lines),
                          !.parsed = Cardinality(given)]
        ELSE [stop EXCEPT !.ended = FALSE, !.err = "", !.endCursor = endCursor - r.n,
                          !.tried = tried + Len(r.lines), !.parsed = Cardinality(given)]

----------------------------------------------------------------------------
(* The log lines and files of the model *)

\* "[2019/08/26 06:19:13.001 -04:00] [INFO] ab"
LineInfo == <<"[">> \o Stamp(1) \o <<"]", " ", "[", "I", "N", "F", "O", "]", " ", "a", "b">>
\* "[2019/08/26 06:19:13.002 -04:00] [note] a": a level ParseLogLevel does not know
LineNote == <<"[">> \o Stamp(2) \o <<"]", " ", "[", "n", "o", "t", "e", "]", " ", "a">>
\* "[2019/08/26 06:19:13.003 -04:00] [WARN] b"
LineWarn == <<"[">> \o Stamp(3) \o <<"]", " ", "[", "W", "A", "R", "N", "]", " ", "b">>
\* " at 2019/08/26 06:19:13.003 -04:00 ": no log header, not shorter than a timestamp
LineLong == <<" ", "a", "t", " ">> \o Stamp(3) \o <<" ">>

RECURSIVE FileBytes(_)
\* a file of the given lines, each ended by "\n"
FileBytes(lines) ==
    IF lines = <<>> THEN <<>> ELSE Head(lines) \o <<"\n">> \o FileBytes(Tail(lines))

\* x, n times
Repeat(x, n) == [i \in 1..n |-> x]

\* the files of a directory: of 1 ms, 2 ms, 3 ms, of 1 ms to 2 ms, with no valid
\* log, and with a valid first log followed by nine lines that are none
FileAt1 == FileBytes(<<LineInfo>>)
FileAt2 == FileBytes(<<LineNote>>)
FileAt3 == FileBytes(<<LineWarn>>)
FileAt12 == FileBytes(<<LineInfo, LineNote>>)
FileJunk == FileBytes(<<LineLong>>)
FileTail == FileBytes(<<LineInfo>> \o Repeat(<<"x">>, 9))

Contents == {FileAt1, FileAt2, FileAt3, FileAt12, FileJunk, FileTail}

\* readFirstValidLog(ctx, reader, 10) and readLastValidLog(ctx, file, 10) as
\* walkFn calls them, on each file of a directory
FirstValidLog == [done \in BOOLEAN, c \in Contents |-> readFirstValidLog(done, c, 10)]
LastValidLog == [done \in BOOLEAN, c \in Contents |-> readLastValidLog(done, c, 10)]

----------------------------------------------------------------------------
(* State *)

VARIABLES
    files,     \* the open-file table: handle -> [content, open].  content is what
               \* the handle's decoding stream yields (the decompressed bytes of
               \* a compressed file)
    ctxDone,   \* whether ctx is cancelled
    iter,      \* the logIterator
    ret,       \* what the last call of next returned
    last,      \* the last entry next returned (NoRet: none yet)
    closed,    \* whether close has been called
    faulted,   \* whether a read of next has failed (at most one does in a run)
    skipped,   \* the files of iter.pending next passed over because their
               \* decoding stream could not be set up
    dir,       \* the candidates of resolveFiles, in directory order
    req,       \* the window resolveFiles is called with
    res,       \* what resolveFiles returned
    scan,      \* successive calls of readLastLines on a file: the cursor, and
               \* what the last call returned
    probe,     \* the loop of readLastValidLog on a file, round by round
    lvl        \* a call of ParseLogLevel: its argument, and what it returned

vars == <<files, ctxDone, iter, ret, last, closed, faulted, skipped, dir, req, res,
          scan, probe, lvl>>

\* no call of readLastLines is made
NoScan == [on |-> FALSE, start |-> 0, from |-> 0, cursor |-> 0, lines |-> <<>>, n |-> 0,
           err |-> "", failed |-> FALSE, calls |-> 0]

\* no call of ParseLogLevel is made
NoLvl == [s |-> <<>>, called |-> FALSE, level |-> LogLevel_UNKNOWN]

\* no probe is run
NoProbe == [pc |-> "idle", before |-> 0, endCursor |-> 0, tried |-> 0, parsed |-> 0,
            rounds |-> 0, err |-> "", item |-> NoItem]

----------------------------------------------------------------------------
(* Log iterator *)

\* iter.reader == nil
NilReader == [nil |-> TRUE, file |-> 0, pos |-> 0]

\* regexp.MatchString for the patterns of the model: a pattern is one literal byte
MatchString(p, message) == Index(message, p) # -1

RECURSIVE Pow2(_)
Pow2(n) == IF n = 0 THEN 1 ELSE 2 * Pow2(n - 1)

\* flag & (1 << level) != 0
HasBit(flag, level) == (flag \div Pow2(level)) % 2 = 1

\* What next returns.  kind: "item", "EOF" or "err"; from, fault and failed
\* record where the item comes from: the file (its handle) and offset of
\* its line, whether it was made of a read that failed, and whether a read
\* failed during the call.  The handles of pending are its indexes, so that
\* from is ordered as the lines are read.
NoRet == [kind |-> "none", item |-> NoItem, err |-> "", from |-> <<0, 0>>,
          fault |-> FALSE, failed |-> FALSE]
RetErr(e) == [NoRet EXCEPT !.kind = "err", !.err = e]
RetEOF == [NoRet EXCEPT !.kind = "EOF", !.err = "EOF"]

\* updateToNextReader taking the pending files from the last one backwards
updateToNextReaderBackwards(it, gzFail) ==
    LET f == it.pending[Len(it.pending) - it.fileIndex]
    IN  IF f.compressed /\ gzFail THEN [err |-> "gzip", it |-> it]
        ELSE [err |-> "", it |-> [it EXCEPT !.reader = [nil |-> FALSE, file |-> f.file, pos |-> 0]]]

\* logIterator.updateToNextReader; gzFail says whether gzip.NewReader fails
updateToNextReader(it, gzFail) ==
    LET f == it.pending[it.fileIndex + 1]
    IN  IF ~f.compressed
        THEN [err |-> "", it |-> [it EXCEPT !.reader = [nil |-> FALSE, file |-> f.file, pos |-> 0]]]
        ELSE IF gzFail THEN [err |-> "gzip", it |-> it]
        ELSE [err |-> "", it |-> [it EXCEPT !.reader = [nil |-> FALSE, file |-> f.file, pos |-> 0]]]

\* a continuation entry that keeps the time of preLog and not its level
continuationNoLevel(preLog, line) ==
    [Time |-> preLog.Time, Level |-> LogLevel_UNKNOWN, Message |-> line]

\* the entry next makes of a line that does not parse
continuation(preLog, line) ==
    [Time |-> preLog.Time, Level |-> preLog.Level, Message |-> line]

\* the filters without the test of item.Time against begin
FilterNoBegin(it, item) ==
    IF item.Time > it.end THEN "EOF"
    ELSE IF it.levelFlag # 0 /\ item.Level > LogLevel_UNKNOWN
            /\ ~HasBit(it.levelFlag, item.Level) THEN "skip"
    ELSE IF \E i \in 1..Len(it.patterns) : ~MatchString(it.patterns[i], item.Message)
    THEN "skip"
    ELSE "return"

\* the filters letting through an item that one of the patterns matches
FilterAnyPattern(it, item) ==
    IF item.Time > it.end THEN "EOF"
    ELSE IF item.Time < it.begin THEN "skip"
    ELSE IF item.Level > LogLevel_UNKNOWN /\ it.levelFlag # 0
            /\ ~HasBit(it.levelFlag, item.Level) THEN "skip"
    ELSE IF Len(it.patterns) > 0
            /\ \A i \in 1..Len(it.patterns) : ~MatchString(it.patterns[i], item.Message)
    THEN "skip"
    ELSE "return"

\* the filters with a level test that does not keep the unknown level
FilterNoUnknown(it, item) ==
    IF item.Time > it.end THEN "EOF"
    ELSE IF item.Time < it.begin THEN "skip"
    ELSE IF it.levelFlag # 0 /\ ~HasBit(it.levelFlag, item.Level) THEN "skip"
    ELSE IF \E i \in 1..Len(it.patterns) : ~MatchString(it.patterns[i], item.Message)
    THEN "skip"
    ELSE "return"

\* the filters of next on an item: "EOF", "skip" or "return"
Filter(it, item) ==
    IF item.Time > it.end THEN "EOF"
    ELSE IF item.Time < it.begin THEN "skip"
    ELSE IF item.Level > LogLevel_UNKNOWN /\ it.levelFlag # 0
            /\ ~HasBit(it.levelFlag, item.Level) THEN "skip"
    ELSE IF Len(it.patterns) > 0
            /\ \E i \in 1..Len(it.patterns) : ~MatchString(it.patterns[i], item.Message)
    THEN "skip"
    ELSE "return"

RECURSIVE nextLine(_, _, _, _, _, _, _)
\* the loop of next, at its k-th round of this call.  fs is the file table, done
\* whether ctx was cancelled before the call, cancelAt the round at whose check
\* ctx is first seen cancelled (-1: not during this call), faultAt the round whose
\* readLine fails with an error that is not io.EOF (-1: none), gzFail whether
\* gzip.NewReader fails.  [it, ret, reads]: reads counts the calls of readLine
nextLine(it, fs, done, cancelAt, faultAt, gzFail, k) ==
    IF done \/ (cancelAt # -1 /\ k >= cancelAt)
    THEN [it |-> it, ret |-> RetErr("canceled"), reads |-> k]
    ELSE
    LET r == IF faultAt = k
             THEN [eof |-> FALSE, line |-> <<>>, pos |-> it.reader.pos]
             ELSE readLine(fs[it.reader.file].content, it.reader.pos)
    IN  IF r.eof
        THEN LET it1 == [it EXCEPT !.fileIndex = @ + 1]
                 u == updateToNextReader(it1, gzFail)
             IN  IF it1.fileIndex >= Len(it1.pending)
                 THEN [it |-> it1, ret |-> RetEOF, reads |-> k + 1]
                 ELSE IF u.err # "" THEN [it |-> it1, ret |-> RetErr(u.err), reads |-> k + 1]
                 ELSE nextLine(u.it, fs, done, cancelAt, faultAt, gzFail, k + 1)
        ELSE
        LET it1 == [it EXCEPT !.reader.pos = r.pos]
            line == TrimSpace(r.line)
            p == parseLogItem(line)
            item == IF p.err THEN continuation(it.preLog, line) ELSE p.item
            it2 == IF p.err THEN it1 ELSE [it1 EXCEPT !.preLog = p.item]
            verdict == Filter(it2, item)
        IN  IF it.preLog = NoItem /\ Len(line) < timeStampLayoutLen
            THEN nextLine(it1, fs, done, cancelAt, faultAt, gzFail, k + 1)
            ELSE IF p.err /\ it.preLog = NoItem
            THEN nextLine(it1, fs, done, cancelAt, faultAt, gzFail, k + 1)
            ELSE IF verdict = "EOF" THEN [it |-> it2, ret |-> RetEOF, reads |-> k + 1]
            ELSE IF verdict = "skip"
            THEN nextLine(it2, fs, done, cancelAt, faultAt, gzFail, k + 1)
            ELSE [it |-> it2,
                  ret |-> [NoRet EXCEPT !.kind = "item", !.item = item,
                                        !.from = <<it.reader.file, it.reader.pos>>,
                                        !.fault = (faultAt = k)],
                  reads |-> k + 1]

\* next looking at ctx only from the second round of its loop on
nextLateCheck(it, fs, done, cancelAt, faultAt, gzFail) ==
    LET late == IF done THEN 1 ELSE cancelAt
    IN  IF it.reader.nil
        THEN IF Len(it.pending) = 0 THEN [it |-> it, ret |-> RetEOF, reads |-> 0]
             ELSE LET u == updateToNextReader(it, gzFail)
                  IN  IF u.err # "" THEN [it |-> it, ret |-> RetErr(u.err), reads |-> 0]
                      ELSE nextLine(u.it, fs, FALSE, late, faultAt, gzFail, 0)
        ELSE nextLine(it, fs, FALSE, late, faultAt, gzFail, 0)

\* logIterator.next(ctx): [it, ret, reads]
next(it, fs, done, cancelAt, faultAt, gzFail) ==
    IF it.reader.nil
    THEN IF Len(it.pending) = 0 THEN [it |-> it, ret |-> RetEOF, reads |-> 0]
         ELSE LET u == updateToNextReader(it, gzFail)
              IN  IF u.err # "" THEN [it |-> it, ret |-> RetErr(u.err), reads |-> 0]
                  ELSE nextLine(u.it, fs, done, cancelAt, faultAt, gzFail, 0)
    ELSE nextLine(it, fs, done, cancelAt, faultAt, gzFail, 0)

\* close on the file being read alone
closeCurrent(it, fs) ==
    [h \in DOMAIN fs |->
        IF ~it.reader.nil /\ it.reader.file = h THEN [fs[h] EXCEPT !.open = FALSE] ELSE fs[h]]

\* logIterator.close: the file table after it
close(it, fs) ==
    [h \in DOMAIN fs |->
        IF \E i \in 1..Len(it.pending) : it.pending[i].file = h
        THEN [fs[h] EXCEPT !.open = FALSE] ELSE fs[h]]

----------------------------------------------------------------------------
(* File resolver *)

\* strings.HasPrefix, strings.HasSuffix
HasPrefix(s, prefix) == Len(s) >= Len(prefix) /\ SubSeq(s, 1, Len(prefix)) = prefix
HasSuffix(s, suffix) ==
    Len(s) >= Len(suffix) /\ SubSeq(s, Len(s) - Len(suffix) + 1, Len(s)) = suffix

compressSuffix == <<".", "g", "z">>

\* resolveFiles is called with logFilePath "t.log": logDir is ".", so that
\* filepath.Join(logDir, name) is the name itself
logFilePath == <<"t", ".", "l", "o", "g">>
\* filepath.Ext(logFilePath)
ext == <<".", "l", "o", "g">>
\* logFilePath[:len(logFilePath)-len(ext)]
filePrefix == Slice(logFilePath, 0, Len(logFilePath) - Len(ext))

\* the state of resolveFiles between two candidates: logFiles, skipFiles, err
\* (the variable of resolveFiles that walkFn assigns when it opens a file), the
\* handles opened so far, and ret, the error walkFn returned ("": nil)
NoWalk == [logFiles |-> <<>>, skipFiles |-> <<>>, err |-> "", opened |-> {}, ret |-> ""]

\* skipFiles = append(skipFiles, file)
Skip(w, h) == [w EXCEPT !.skipFiles = Append(@, h)]

\* walkFn on candidate c, whose handle is h once opened.  atCheck: ctx is
\* cancelled at the check before the open; inProbe: ctx is cancelled while the
\* file is probed
walkFn(w, h, c, atCheck, inProbe, beginTime, endTime) ==
    LET compressed == HasSuffix(c.name, compressSuffix)
        path == IF compressed THEN Slice(c.name, 0, Len(c.name) - Len(compressSuffix))
                ELSE c.name
        opened == [w EXCEPT !.err = "", !.opened = @ \cup {h}]
        firstItem == FirstValidLog[inProbe, c.content]
        lastItem == LastValidLog[inProbe, c.content]
        firstItemTime == firstItem.item.Time
        lastItemTime == IF compressed THEN MaxInt64 ELSE lastItem.item.Time
    IN  IF c.isDir THEN w
        ELSE IF ~HasPrefix(c.name, filePrefix) THEN w
        ELSE IF ~HasSuffix(path, ext) THEN w
        ELSE IF atCheck THEN [w EXCEPT !.ret = "canceled"]
        ELSE IF c.openErr THEN [w EXCEPT !.err = "open"]
        ELSE IF compressed /\ c.gzErr THEN opened
        ELSE IF firstItem.err # "" THEN Skip(opened, h)
        ELSE IF ~compressed /\ lastItem.err # "" THEN Skip(opened, h)
        ELSE IF c.seekErr THEN Skip(opened, h)
        ELSE IF beginTime > lastItemTime \/ endTime < firstItemTime THEN Skip(opened, h)
        ELSE [opened EXCEPT !.logFiles =
                 Append(@, [file |-> h, begin |-> firstItemTime, end |-> lastItemTime,
                            compressed |-> compressed])]

RECURSIVE walk(_, _, _, _, _, _)
\* the loop of resolveFiles over the candidates from the i-th on.  done: ctx was
\* cancelled before the call; cancelAt: the candidate during whose probe ctx
\* fires (0: none)
walk(w, cands, i, done, cancelAt, window) ==
    IF i > Len(cands) THEN w
    ELSE LET atCheck == done \/ (cancelAt # 0 /\ i > cancelAt)
             inProbe == done \/ (cancelAt # 0 /\ i >= cancelAt)
             w1 == walkFn(w, i, cands[i], atCheck, inProbe, window[1], window[2])
         IN  IF w1.ret # "" THEN w1 ELSE walk(w1, cands, i + 1, done, cancelAt, window)

\* the orders logFiles may be in when it is left unsorted
AnyOrders(logFiles) ==
    {p \in [1..Len(logFiles) -> 1..Len(logFiles)] :
        \A i, j \in 1..Len(logFiles) : i # j => p[i] # p[j]}

\* the orders sort.Slice may leave logFiles in: sorted by begin, files of equal
\* begin in any order
SortedOrders(logFiles) ==
    {p \in [1..Len(logFiles) -> 1..Len(logFiles)] :
        /\ \A i, j \in 1..Len(logFiles) : i # j => p[i] # p[j]
        /\ \A i \in 1..(Len(logFiles) - 1) :
              logFiles[p[i]].begin <= logFiles[p[i + 1]].begin}

RECURSIVE PruneFromLeq(_, _, _, _)
\* the pruning loop dropping a file when the next one begins at beginTime too
PruneFromLeq(logFiles, beginTime, i, acc) ==
    IF i >= Len(logFiles) THEN acc
    ELSE IF i = 0 THEN PruneFromLeq(logFiles, beginTime, i + 1, acc)
    ELSE IF logFiles[i + 1].begin <= beginTime
    THEN PruneFromLeq(logFiles, beginTime, i + 1,
                      [idx |-> i, skipped |-> Append(acc.skipped, logFiles[i].file)])
    ELSE acc

RECURSIVE PruneFromSkipCurrent(_, _, _, _)
\* the pruning loop putting logFiles[i], not logFiles[i-1], on skipFiles
PruneFromSkipCurrent(logFiles, beginTime, i, acc) ==
    IF i >= Len(logFiles) THEN acc
    ELSE IF i = 0 THEN PruneFromSkipCurrent(logFiles, beginTime, i + 1, acc)
    ELSE IF logFiles[i + 1].begin < beginTime
    THEN PruneFromSkipCurrent(logFiles, beginTime, i + 1,
                              [idx |-> i, skipped |-> Append(acc.skipped, logFiles[i + 1].file)])
    ELSE acc

RECURSIVE PruneFrom(_, _, _, _)
\* the pruning loop of resolveFiles from 0-based index i on: [idx, skipped]
PruneFrom(logFiles, beginTime, i, acc) ==
    IF i >= Len(logFiles) THEN acc
    ELSE IF i = 0 THEN PruneFrom(logFiles, beginTime, i + 1, acc)
    ELSE IF logFiles[i + 1].begin < beginTime
    THEN PruneFrom(logFiles, beginTime, i + 1,
                   [idx |-> i, skipped |-> Append(acc.skipped, logFiles[i].file)])
    ELSE acc

\* the handles a list of handles names
Range(seq) == {seq[i] : i \in 1..Len(seq)}

\* resolveFiles(ctx, logFilePath, beginTime, endTime) over the candidates cands,
\* from the state w its loop over them ends in, with the order p the sort leaves.
\* dirErr: os.ReadDir fails.  [logFiles, err, open]: open holds the handles left
\* open
resolveFiles(w, window, dirErr, p) ==
    LET sorted == [i \in 1..Len(w.logFiles) |-> w.logFiles[p[i]]]
        pr == PruneFrom(sorted, window[1], 0, [idx |-> 0, skipped |-> <<>>])
        skipFiles == w.skipFiles \o pr.skipped
    IN  IF Len(logFilePath) = 0
        THEN [logFiles |-> <<>>, err |-> "empty log file location configuration", open |-> {}]
        ELSE IF dirErr THEN [logFiles |-> <<>>, err |-> "readdir", open |-> {}]
        ELSE IF w.ret # "" THEN [logFiles |-> <<>>, err |-> w.ret, open |-> w.opened]
        ELSE [logFiles |-> Slice(sorted, pr.idx, Len(sorted)), err |-> w.err,
              open |-> w.opened \ Range(skipFiles)]

----------------------------------------------------------------------------
(* The iterator over a resolved list of files *)

\* the number of lines of the files of a list
MaxLines == 2

LinePool == {LineInfo, LineNote, LineLong}

\* the rounds of a call of next at which ctx may fire, or a read may fail
CancelRounds == {1}
FaultRounds == {0, 1}

\* a log whose lines are not in the order of their times
Unordered == <<LineInfo, LineNote, LineInfo>>

Logs == UNION {[1..n -> LinePool] : n \in 1..MaxLines} \cup {Unordered}

\* the places where a sequence of n lines may be cut into files
CutSets(n) == SUBSET (1..(n - 1))

RECURSIVE Segments(_, _, _)
\* the files of log cut after each index of cuts, from line i on
Segments(log, cuts, i) ==
    IF i > Len(log) THEN <<>>
    ELSE LET stop == IF \E c \in cuts : c >= i
                     THEN CHOOSE c \in cuts : c >= i /\ \A d \in cuts : d >= i => c <= d
                     ELSE Len(log)
         IN  <<SubSeq(log, i, stop)>> \o Segments(log, cuts, stop + 1)

\* the logFile resolveFiles makes of an opened file
AsLogFile(h, content, compressed) ==
    [file |-> h,
     begin |-> readFirstValidLog(FALSE, content, 10).item.Time,
     end |-> IF compressed THEN MaxInt64 ELSE readLastValidLog(FALSE, content, 10).item.Time,
     compressed |-> compressed]

\* whether walkFn finds the first and the last log of a file
Resolvable(content, compressed) ==
    /\ readFirstValidLog(FALSE, content, 10).err = ""
    /\ compressed \/ readLastValidLog(FALSE, content, 10).err = ""

\* [begin, end] of the iterator
Windows == {<<1, 1>>, <<1, 2>>, <<2, 2>>}
LevelFlags == {0, Pow2(LogLevel_Info), Pow2(LogLevel_Warn)}
PatternSets == {<<>>, <<"a", "b">>}

\* what happens during one call of next: at most one of ctx firing, a read
\* failing and gzip.NewReader failing
Events ==
    {[cancelAt |-> -1, faultAt |-> -1, gzFail |-> FALSE],
     [cancelAt |-> -1, faultAt |-> -1, gzFail |-> TRUE]}
    \cup {[cancelAt |-> c, faultAt |-> -1, gzFail |-> FALSE] : c \in CancelRounds}
    \cup {[cancelAt |-> -1, faultAt |-> f, gzFail |-> FALSE] : f \in FaultRounds}

NoRes == [called |-> FALSE, logFiles |-> <<>>, err |-> ""]

\* The iterator is made of a list resolveFiles returns for its window: files
\* whose first and last log it found, inside the window, sorted by begin, none
\* but the first beginning before the window.  The empty list is one of them.
Init ==
    \E log \in Logs \cup {<<>>} : \E cuts \in CutSets(Len(log)) :
    LET segs == Segments(log, cuts, 1)
    IN  \E gz \in [1..Len(segs) -> BOOLEAN] : \E window \in Windows :
        \E flag \in LevelFlags : \E pats \in PatternSets :
        LET pending == [i \in 1..Len(segs) |-> AsLogFile(i, FileBytes(segs[i]), gz[i])]
        IN  /\ \A i \in 1..Len(segs) : Resolvable(FileBytes(segs[i]), gz[i])
            /\ \A i \in 1..Len(segs) :
                  window[1] <= pending[i].end /\ window[2] >= pending[i].begin
            /\ \A i \in 1..(Len(segs) - 1) : pending[i].begin <= pending[i + 1].begin
            /\ \A i \in 2..Len(segs) : pending[i].begin >= window[1]
            /\ files = [i \in 1..Len(segs) |-> [content |-> FileBytes(segs[i]), open |-> TRUE]]
            /\ iter = [begin |-> window[1], end |-> window[2], levelFlag |-> flag,
                       patterns |-> pats, fileIndex |-> 0, reader |-> NilReader,
                       pending |-> pending, preLog |-> NoItem]
            /\ ctxDone = FALSE
            /\ ret = NoRet
            /\ last = NoRet
            /\ closed = FALSE
            /\ faulted = FALSE
            /\ skipped = {}
            /\ dir = <<>>
            /\ req = <<0, 0>>
            /\ res = NoRes
            /\ scan = NoScan
            /\ probe = NoProbe
            /\ lvl = NoLvl

\* a call of iter.next(ctx)
NextCall ==
    /\ ~closed
    /\ iter.fileIndex <= Len(iter.pending)
    /\ \E e \in Events :
        /\ e.faultAt # -1 => ~faulted
        /\ LET r == next(iter, files, ctxDone, e.cancelAt, e.faultAt, e.gzFail)
               failed == e.faultAt # -1 /\ e.faultAt < r.reads
           IN  /\ iter' = r.it
               /\ ret' = [r.ret EXCEPT !.failed = failed]
               /\ last' = IF r.ret.kind = "item" THEN [r.ret EXCEPT !.failed = failed] ELSE last
               /\ ctxDone' = (ctxDone \/ r.ret.err = "canceled")
               /\ faulted' = (faulted \/ failed)
               /\ skipped' = IF r.ret.err = "gzip" /\ ~r.it.reader.nil
                             THEN skipped \cup {r.it.fileIndex + 1} ELSE skipped
    /\ UNCHANGED <<files, closed, dir, req, res, scan, probe, lvl>>

\* ctx is cancelled between two calls
Cancel ==
    /\ ~closed
    /\ ~res.called
    /\ ~ctxDone
    /\ ctxDone' = TRUE
    /\ UNCHANGED <<files, iter, ret, last, closed, faulted, skipped, dir, req, res, scan, probe, lvl>>

\* a call of iter.close()
Close ==
    /\ ~closed
    /\ files' = close(iter, files)
    /\ closed' = TRUE
    /\ UNCHANGED <<ctxDone, iter, ret, last, faulted, skipped, dir, req, res, scan, probe, lvl>>

Next == NextCall \/ Cancel \/ Close

Spec == Init /\ [][Next]_vars

----------------------------------------------------------------------------
(* resolveFiles over a directory *)

\* the number of candidates of a directory
MaxCand == 3

\* the names of the i-th candidate: "t<i>.log", "t<i>.log.gz", "o<i>.log"
PlainName(i) == <<"t", Digit(i)>> \o ext
GzName(i) == PlainName(i) \o compressSuffix
OtherName(i) == <<"o", Digit(i)>> \o ext

Shape(kind, content, fails) == [kind |-> kind, content |-> content, fails |-> fails]

\* what a candidate may be: a plain or a compressed log file, one that cannot
\* be opened, one whose gzip header is invalid, one that cannot be rewound, a
\* file of another name, a directory
Shapes ==
    {Shape("plain", c, "") : c \in Contents}
    \cup {Shape("gz", c, "") : c \in {FileAt1, FileAt2}}
    \cup {Shape("plain", FileAt2, "open"), Shape("gz", FileAt2, "gzip"),
          Shape("plain", FileAt2, "seek"), Shape("other", FileAt2, ""),
          Shape("dir", FileAt2, "")}

\* the i-th candidate, of shape s
Cand(s, i) ==
    [name |-> CASE s.kind = "gz" -> GzName(i)
                [] s.kind = "other" -> OtherName(i)
                [] OTHER -> PlainName(i),
     isDir |-> s.kind = "dir",
     openErr |-> s.fails = "open",
     gzErr |-> s.fails = "gzip",
     seekErr |-> s.fails = "seek",
     content |-> s.content]

\* [beginTime, endTime] of a call of resolveFiles
ResolveWindows == {<<1, 2>>, <<2, 2>>, <<2, 3>>, <<3, 3>>}

NoIter == [begin |-> 0, end |-> 0, levelFlag |-> 0, patterns |-> <<>>, fileIndex |-> 0,
           reader |-> NilReader, pending |-> <<>>, preLog |-> NoItem]

InitResolve ==
    \E n \in 0..MaxCand : \E shapes \in [1..n -> Shapes] : \E window \in ResolveWindows :
        /\ dir = [i \in 1..n |-> Cand(shapes[i], i)]
        /\ req = window
        /\ res = NoRes
        /\ files = [i \in 1..n |-> [content |-> shapes[i].content, open |-> FALSE]]
        /\ ctxDone = FALSE
        /\ iter = NoIter
        /\ ret = NoRet
        /\ last = NoRet
        /\ closed = FALSE
        /\ faulted = FALSE
        /\ skipped = {}
        /\ scan = NoScan
        /\ probe = NoProbe
        /\ lvl = NoLvl

\* a call of resolveFiles(ctx, "t.log", req[1], req[2]).  cancelAt: the
\* candidate during whose probe ctx fires; dirErr: os.ReadDir fails
ResolveCall ==
    /\ ~res.called
    /\ \E cancelAt \in 0..Len(dir) : \E dirErr \in BOOLEAN :
        /\ dirErr => cancelAt = 0
        /\ \E w \in {walk(NoWalk, dir, 1, ctxDone, cancelAt, req)} :
           \E p \in SortedOrders(w.logFiles) :
           \E r \in {resolveFiles(w, req, dirErr, p)} :
               /\ res' = [called |-> TRUE, logFiles |-> r.logFiles, err |-> r.err]
               /\ files' = [h \in DOMAIN files |-> [files[h] EXCEPT !.open = (h \in r.open)]]
               /\ ctxDone' = (ctxDone \/ cancelAt # 0)
    /\ UNCHANGED <<iter, ret, last, closed, faulted, skipped, dir, req, scan, probe, lvl>>

NextResolve == ResolveCall \/ Cancel

SpecResolve == InitResolve /\ [][NextResolve]_vars

----------------------------------------------------------------------------
(* readLastLines and readLastValidLog over one file *)

\* the number of lines of a file before its short last lines
MaxTailLines == 2

\* "[2019/08/26 06:19:13.001 -04:00] [INFO] ab" and 500 more bytes: a line that
\* is longer than the first chunk readLastLines reads
LongInfo == LineInfo \o Repeat("a", 500)
\* "[2019/08/26 06:19:13.001 -04:00] [INFO] ab\rc": a carriage return inside a line
LineCR == LineInfo \o <<"\r", "c">>

\* 520 bytes without a log header: longer than the first chunk too
LongJunk == Repeat("x", 520)

\* the lines of a file: with a log header, without one, short, empty
TailPool == {LineInfo, LongInfo, LongJunk, LineCR, <<"x">>, <<>>}

\* how many lines "x" end a file
JunkCounts == {0, 1, 11}

Terminators == {<<"\n">>, <<"\r", "\n">>}

RECURSIVE JoinLines(_, _)
\* strings.Join(lines, term)
JoinLines(lines, term) ==
    IF lines = <<>> THEN <<>>
    ELSE IF Len(lines) = 1 THEN lines[1]
    ELSE lines[1] \o term \o JoinLines(Tail(lines), term)

\* the file of the lines head, then junk lines "x", each line but the last
\* ended by term, and the last too when ended
TailFile(head, junk, term, ended) ==
    LET lines == head \o Repeat(<<"x">>, junk)
    IN  JoinLines(lines, term) \o (IF ended /\ lines # <<>> THEN term ELSE <<>>)

\* the cursors the first call of readLastLines is given: the size of the file,
\* and offsets inside it
StartCursors(content) ==
    {Len(content)} \cup ({1, Len(content) \div 2, Len(content) - 1} \cap (1..Len(content)))

InitTail ==
    \E n \in 0..MaxTailLines : \E head \in [1..n -> TailPool] : \E junk \in JunkCounts :
    \E term \in Terminators : \E ended \in BOOLEAN :
    LET content == TailFile(head, junk, term, ended)
    IN  /\ files = <<[content |-> content, open |-> TRUE]>>
        /\ \/ /\ \E start \in StartCursors(content) :
                    scan = [NoScan EXCEPT !.on = TRUE, !.start = start, !.cursor = start]
              /\ probe = NoProbe
              /\ lvl = NoLvl
           \/ /\ scan = NoScan
              /\ probe = [NoProbe EXCEPT !.pc = "run", !.endCursor = Len(content)]
        /\ ctxDone = FALSE
        /\ iter = NoIter
        /\ ret = NoRet
        /\ last = NoRet
        /\ closed = FALSE
        /\ faulted = FALSE
        /\ skipped = {}
        /\ dir = <<>>
        /\ req = <<0, 0>>
        /\ res = NoRes
        /\ lvl = NoLvl

\* a call of readLastLines(ctx, file, cursor), the cursor then moved back by the
\* bytes it returns; no call follows one that fails or returns 0 bytes
ScanCall ==
    /\ scan.on /\ scan.err = "" /\ ~scan.failed
    /\ scan.calls = 0 \/ scan.n > 0
    /\ \E ioFail \in BOOLEAN :
        LET r == readLastLinesIO(ctxDone, files[1].content, scan.cursor, ioFail)
        IN  scan' = [scan EXCEPT !.from = scan.cursor, !.cursor = scan.cursor - r.n,
                                 !.lines = r.lines, !.n = r.n, !.err = r.err,
                                 !.failed = (ioFail /\ scan.cursor > 0), !.calls = 1]
    /\ UNCHANGED <<files, ctxDone, iter, ret, last, closed, faulted, skipped, dir, req, res,
                   probe, lvl>>

\* one round of the loop of readLastValidLog(ctx, file, 10); ioFail: a seek
\* or a read of the round fails
ProbeRoundWith(ioFail) ==
    /\ probe.pc = "run"
    /\ \E r \in {probeRound(ctxDone, files[1].content, 10, probe.endCursor, probe.tried, ioFail)} :
        probe' = [pc |-> IF r.ended THEN "done" ELSE "run",
                  before |-> probe.endCursor,
                  endCursor |-> r.endCursor,
                  tried |-> r.tried,
                  parsed |-> probe.parsed + r.parsed,
                  rounds |-> probe.rounds + 1,
                  err |-> r.err,
                  item |-> r.item]
    /\ UNCHANGED <<files, ctxDone, iter, ret, last, closed, faulted, skipped, dir, req, res,
                   scan, lvl>>

ProbeRound == ProbeRoundWith(TRUE) \/ ProbeRoundWith(FALSE)

NextTail == ScanCall \/ ProbeRound \/ Cancel

SpecTail == InitTail /\ [][NextTail]_vars

\* the loop of readLastValidLog keeps running until it returns
SpecTailFair == SpecTail /\ WF_vars(ProbeRound)

----------------------------------------------------------------------------
(* ParseLogLevel over level strings *)

\* the upper-case form of the letters the level names are written with
Upper ==
    [c \in {"a", "b", "c", "d", "e", "f", "g", "i", "l", "n", "o", "r", "t", "u", "w"} |->
        CASE c = "a" -> "A" [] c = "b" -> "B" [] c = "c" -> "C" [] c = "d" -> "D"
          [] c = "e" -> "E" [] c = "f" -> "F" [] c = "g" -> "G" [] c = "i" -> "I"
          [] c = "l" -> "L" [] c = "n" -> "N" [] c = "o" -> "O" [] c = "r" -> "R"
          [] c = "t" -> "T" [] c = "u" -> "U" [] c = "w" -> "W"]

\* the name of each level, in lower case
LevelNames ==
    <<[name |-> <<"d", "e", "b", "u", "g">>, level |-> LogLevel_Debug],
      [name |-> <<"i", "n", "f", "o">>, level |-> LogLevel_Info],
      [name |-> <<"w", "a", "r", "n">>, level |-> LogLevel_Warn],
      [name |-> <<"t", "r", "a", "c", "e">>, level |-> LogLevel_Trace],
      [name |-> <<"c", "r", "i", "t", "i", "c", "a", "l">>, level |-> LogLevel_Critical],
      [name |-> <<"e", "r", "r", "o", "r">>, level |-> LogLevel_Error]>>

\* name in upper case
ToUpper(name) == [i \in 1..Len(name) |-> Upper[name[i]]]

\* every spelling of name, each letter in either case
Spellings(name) ==
    {[i \in 1..Len(name) |-> IF HasBit(m, i - 1) THEN Upper[name[i]] ELSE name[i]] :
        m \in 0..(Pow2(Len(name)) - 1)}

\* strings that spell no level
NoLevelStrings ==
    {<<>>, <<"x">>, <<"n", "o", "t", "e">>, <<"i", "n", "f">>, <<"i", "n", "f", "o", "s">>,
     <<"w", "a", "r", "n", "i", "n", "g">>, <<"W", "A", "R", "N", "I", "N", "G">>,
     <<"f", "a", "t", "a", "l">>, <<" ", "i", "n", "f", "o">>, <<"0">>}

\* the strings ParseLogLevel is called with
LevelStrings ==
    UNION {Spellings(LevelNames[k].name) : k \in 1..Len(LevelNames)} \cup NoLevelStrings

InitLevel ==
    /\ lvl \in {[s |-> s, called |-> FALSE, level |-> LogLevel_UNKNOWN] : s \in LevelStrings}
    /\ files = <<>>
    /\ ctxDone = FALSE
    /\ iter = NoIter
    /\ ret = NoRet
    /\ last = NoRet
    /\ closed = FALSE
    /\ faulted = FALSE
    /\ skipped = {}
    /\ dir = <<>>
    /\ req = <<0, 0>>
    /\ res = NoRes
    /\ scan = NoScan
    /\ probe = NoProbe

\* a call of ParseLogLevel
ParseLevelCall ==
    /\ ~lvl.called
    /\ lvl' = [lvl EXCEPT !.called = TRUE, !.level = ParseLogLevel(lvl.s)]
    /\ UNCHANGED <<files, ctxDone, iter, ret, last, closed, faulted, skipped, dir, req, res,
                   scan, probe>>

NextLevel == ParseLevelCall

SpecLevel == InitLevel /\ [][NextLevel]_vars

----------------------------------------------------------------------------
(* What the files hold, line by line *)

RECURSIVE LinesFrom(_, _)
\* the lines of content from offset pos on: the offset and the trimmed text of each
LinesFrom(content, pos) ==
    LET r == readLine(content, pos)
    IN  IF r.eof THEN <<>>
        ELSE <<[pos |-> pos, text |-> TrimSpace(r.line)]>> \o LinesFrom(content, r.pos)

\* the lines of each file a list may hold, and what each line parses to
LinesOf == [c \in {FileBytes(log) : log \in Logs} |-> LinesFrom(c, 0)]
ItemOf == [t \in {TrimSpace(l) : l \in LinePool} |-> parseLogItem(t)]

\* the lines of the i-th file of iter.pending
LinesOfFile(i) == LinesOf[files[iter.pending[i].file].content]

\* the number of the line of file i at offset pos
LineNo(i, pos) == CHOOSE k \in 1..Len(LinesOfFile(i)) : LinesOfFile(i)[k].pos = pos

\* <<file, offset>> a before <<file, offset>> b in reading order
Before(a, b) == a[1] < b[1] \/ (a[1] = b[1] /\ a[2] < b[2])

\* the lines <<file, number>> an iterator reads when it passes over the files of skip
ReadLines(skip) ==
    UNION {{<<i, k>> : k \in 1..Len(LinesOfFile(i))} : i \in (1..Len(iter.pending)) \ skip}

\* whether line k of file i has a log header
Parses(i, k) == ~ItemOf[LinesOfFile(i)[k].text].err

\* the lines with a log header read before line k of file i
ParsedBefore(skip, i, k) ==
    {q \in ReadLines(skip) : Parses(q[1], q[2]) /\ Before(q, <<i, k>>)}

\* the entry line k of file i stands for: its own when it has a log header, else
\* a continuation of the last line before it that has one; NoItem when none has
EntryOf(skip, i, k) ==
    LET text == LinesOfFile(i)[k].text
        before == ParsedBefore(skip, i, k)
        prev == CHOOSE q \in before : \A o \in before : o = q \/ Before(o, q)
        head == ItemOf[LinesOfFile(prev[1])[prev[2]].text].item
    IN  IF Parses(i, k) THEN ItemOf[text].item
        ELSE IF before = {} THEN NoItem
        ELSE [Time |-> head.Time, Level |-> head.Level, Message |-> text]

\* where the iterator is: the file and offset of the next line it reads
Position(it) == IF it.reader.nil THEN <<1, 0>> ELSE <<it.reader.file, it.reader.pos>>

\* the lines a call reads between the positions a and b, but the line at except
Discarded(skip, a, b, except) ==
    {q \in ReadLines(skip) :
        LET at == <<q[1], LinesOfFile(q[1])[q[2]].pos>>
        IN  ~Before(at, a) /\ Before(at, b) /\ at # except}

InWindow(item) == iter.begin <= item.Time /\ item.Time <= iter.end

MatchesAll(item) ==
    \A i \in 1..Len(iter.patterns) : MatchString(iter.patterns[i], item.Message)

----------------------------------------------------------------------------
(* Properties of the iterator *)

\* C1: every entry next returns has its time inside [begin, end] of the
\* iterator, the continuation entries made of lines without header included.
C1_EntriesInWindow ==
    ret.kind = "item" => iter.begin <= ret.item.Time /\ ret.item.Time <= iter.end

\* an entry is returned after a line before the window was passed over
C1_Witness ==
    /\ ret.kind = "item" /\ ~ret.fault
    /\ iter.begin = 2 /\ ret.item.Time = 2
    /\ ret.from[2] > 0
    /\ EntryOf(skipped, ret.from[1], 1).Time = 1

\* the times of the lines of file i that have a log header, in line order
RECURSIVE TimesFrom(_, _)
TimesFrom(i, k) ==
    IF k > Len(LinesOfFile(i)) THEN <<>>
    ELSE (IF Parses(i, k) THEN <<ItemOf[LinesOfFile(i)[k].text].item.Time>> ELSE <<>>)
         \o TimesFrom(i, k + 1)

Times(i) == TimesFrom(i, 1)

\* the files are sorted by begin, their spans of time are pairwise disjoint, and
\* the times inside each file never decrease
SortedDisjointMonotone ==
    LET n == Len(iter.pending)
        t == [i \in 1..n |-> Times(i)]
    IN  /\ \A i \in 1..n : \A a, b \in 1..Len(t[i]) : a < b => t[i][a] <= t[i][b]
        /\ \A i, j \in 1..n : i < j => t[i][1] <= t[j][1]
        /\ \A i, j \in 1..n :
              i # j => t[i][Len(t[i])] < t[j][1] \/ t[j][Len(t[j])] < t[i][1]

\* C2: over files sorted by begin, pairwise disjoint in time and each of
\* non-decreasing times, the entries successive calls of next return have
\* non-decreasing times, and come in file order, then line order.
C2_EntriesInOrder ==
    [][(last.kind = "item" /\ last' # last /\ SortedDisjointMonotone)
        => /\ last.item.Time <= last'.item.Time
           /\ last.from = last'.from \/ Before(last.from, last'.from)
           /\ (~last.fault /\ ~last'.fault) => Before(last.from, last'.from)]_vars

\* entries of the first and then of the second of two such files were returned
C2_Witness ==
    /\ SortedDisjointMonotone
    /\ Len(iter.pending) = 2
    /\ iter.begin = 1 /\ iter.levelFlag = 0 /\ iter.patterns = <<>>
    /\ last.kind = "item" /\ last.from = <<2, 0>> /\ last.item.Time = 2

\* C6 as the specification states it: a call of next during which a read fails
\* with an error that is not the end of the input returns that error.
C6_ReadErrorReturned == ret.failed => ret.kind = "err" /\ ret.err = "read"

\* C7 as the specification states it: when ctx is cancelled before the first
\* call of next, that call fails with the cancellation error, whatever the list.
C7_FirstCallCancelled ==
    [][(ctxDone /\ ret.kind = "none" /\ ret'.kind # "none")
        => ret'.kind = "err" /\ ret'.err = "canceled"]_vars

\* C7: when ctx is cancelled before the first call of next, that call returns
\* no entry; it signals the end of the stream when the list is empty, fails with
\* the cancellation error when the first file is a plain one, and with that
\* error or the one of the gzip header when it is a compressed one.
C7_FirstCallCancelledNoEntry ==
    [][(ctxDone /\ ret.kind = "none" /\ ret'.kind # "none")
        => /\ ret'.kind # "item"
           /\ iter.pending = <<>> => ret'.kind = "EOF"
           /\ (iter.pending # <<>> /\ ~iter.pending[1].compressed)
                 => ret'.kind = "err" /\ ret'.err = "canceled"
           /\ (iter.pending # <<>> /\ iter.pending[1].compressed)
                 => ret'.kind = "err" /\ ret'.err \in {"canceled", "gzip"}]_vars

\* the first call was made with ctx cancelled, on a compressed first file, and
\* no line was read
C7_Witness ==
    /\ ctxDone /\ ret.kind = "err" /\ ret.err = "canceled"
    /\ iter.pending # <<>> /\ iter.pending[1].compressed
    /\ iter.fileIndex = 0 /\ ~iter.reader.nil /\ iter.reader.pos = 0

\* C8: once close has run, none of the files of pending is open, whether it
\* was read, is being read or was never reached.
C8_CloseClosesAll ==
    closed => \A i \in 1..Len(iter.pending) : ~files[iter.pending[i].file].open

\* close ran while the first of two files was being read
C8_Witness ==
    /\ closed
    /\ Len(iter.pending) = 2
    /\ ~iter.reader.nil /\ iter.reader.file = 1 /\ ret.kind = "item"

\* whether the filters of time, level and patterns let an entry through
PassesFilters(e) ==
    /\ InWindow(e)
    /\ e.Level = LogLevel_UNKNOWN \/ iter.levelFlag = 0 \/ HasBit(iter.levelFlag, e.Level)
    /\ MatchesAll(e)

\* C9: an entry returned for a line that has a log header is that line's; one
\* returned for a line without has the time and level of the last line read
\* before it that has a header, and the trimmed line as message; a line without
\* header that no line with a header precedes is never returned, and one that
\* such a line precedes is passed over only when the filters reject its entry.
C9_Continuation ==
    [][/\ (ret'.kind = "item" /\ ~ret'.fault)
            => LET i == ret'.from[1]
                   k == LineNo(i, ret'.from[2])
               IN  ret'.item # NoItem /\ ret'.item = EntryOf(skipped', i, k)
       /\ \A q \in Discarded(skipped', Position(iter), Position(iter'),
                             IF ret'.kind = "item" /\ ~ret'.fault THEN ret'.from ELSE <<0, 0>>) :
            (~Parses(q[1], q[2]) /\ EntryOf(skipped', q[1], q[2]) # NoItem)
                => ~PassesFilters(EntryOf(skipped', q[1], q[2]))]_vars

\* a continuation entry was returned, whose message is the line trimmed
C9_Witness ==
    /\ ret.kind = "item" /\ ~ret.fault
    /\ ~Parses(ret.from[1], LineNo(ret.from[1], ret.from[2]))
    /\ ret.item.Message = TrimSpace(LineLong)
    /\ ret.item.Level = LogLevel_Info

\* C10: of the entries inside the window that match the patterns, a call of
\* next passes over those alone whose level is known and whose bit is not set in
\* a mask that is not 0, and returns none of those.
C10_LevelFilter ==
    [][/\ \A q \in Discarded(skipped', Position(iter), Position(iter'),
                             IF ret'.kind = "item" /\ ~ret'.fault THEN ret'.from ELSE <<0, 0>>) :
            LET e == EntryOf(skipped', q[1], q[2])
            IN  (e # NoItem /\ InWindow(e) /\ MatchesAll(e))
                    => /\ e.Level # LogLevel_UNKNOWN
                       /\ iter.levelFlag # 0
                       /\ ~HasBit(iter.levelFlag, e.Level)
       /\ ret'.kind = "item"
            => \/ ret'.item.Level = LogLevel_UNKNOWN
               \/ iter.levelFlag = 0
               \/ HasBit(iter.levelFlag, ret'.item.Level)]_vars

\* with a mask of WARN alone, a line of level INFO was passed over and one of
\* a level that is not known returned
C10_Witness ==
    /\ iter.levelFlag = Pow2(LogLevel_Warn) /\ iter.begin = 1 /\ iter.patterns = <<>>
    /\ ret.kind = "item" /\ ret.item.Level = LogLevel_UNKNOWN
    /\ ret.from[2] > 0
    /\ EntryOf(skipped, ret.from[1], 1).Level = LogLevel_Info

\* whether the level filter lets an entry through
PassesLevel(e) ==
    e.Level = LogLevel_UNKNOWN \/ iter.levelFlag = 0 \/ HasBit(iter.levelFlag, e.Level)

\* C11: of the entries inside the window that pass the level filter, a call
\* of next passes over those alone that some pattern does not match, and returns
\* none of those; without patterns it passes over none.
C11_PatternFilter ==
    [][/\ \A q \in Discarded(skipped', Position(iter), Position(iter'),
                             IF ret'.kind = "item" /\ ~ret'.fault THEN ret'.from ELSE <<0, 0>>) :
            LET e == EntryOf(skipped', q[1], q[2])
            IN  (e # NoItem /\ InWindow(e) /\ PassesLevel(e))
                    => \E i \in 1..Len(iter.patterns) :
                           ~MatchString(iter.patterns[i], e.Message)
       /\ ret'.kind = "item"
            => \A i \in 1..Len(iter.patterns) :
                   MatchString(iter.patterns[i], ret'.item.Message)]_vars

\* with two patterns, a line that one of them alone matches was passed over
\* and a line that both match returned
C11_Witness ==
    /\ Len(iter.patterns) = 2 /\ iter.levelFlag = 0
    /\ ret.kind = "item" /\ ~ret.fault
    /\ ret.from[2] > 0
    /\ InWindow(EntryOf(skipped, ret.from[1], 1))
    /\ MatchString(iter.patterns[1], EntryOf(skipped, ret.from[1], 1).Message)
    /\ ~MatchString(iter.patterns[2], EntryOf(skipped, ret.from[1], 1).Message)

\* C14: once next has returned io.EOF, because the files are exhausted or
\* because an entry's time exceeded the end of the window, no later call of
\* next on the same iterator returns an entry, whatever the files hold.  Calls
\* during which a read fails are left aside.
C14_EndOfStreamSticky ==
    [][(ret.kind = "EOF" /\ ret' # ret /\ ~faulted') => ret'.kind # "item"]_vars

----------------------------------------------------------------------------
(* Properties of resolveFiles *)

\* the i-th entry of the directory is a file named after logFilePath
Candidate(i) == ~dir[i].isDir /\ dir[i].name \in {PlainName(i), GzName(i)}

Compressed(i) == dir[i].name = GzName(i)

\* the time of the first and of the last log of the i-th entry
FirstTime(i) == FirstValidLog[FALSE, dir[i].content].item.Time
LastTime(i) == LastValidLog[FALSE, dir[i].content].item.Time

\* the candidates that have a span of time [b, e]: those opened, decoded,
\* whose first log, and last log unless compressed, is found, and rewound
Spanned ==
    {i \in 1..Len(dir) :
        /\ Candidate(i)
        /\ ~dir[i].openErr /\ ~dir[i].seekErr
        /\ Compressed(i) => ~dir[i].gzErr
        /\ FirstValidLog[FALSE, dir[i].content].err = ""
        /\ ~Compressed(i) => LastValidLog[FALSE, dir[i].content].err = ""}

SpanBegin(i) == FirstTime(i)
SpanEnd(i) == IF Compressed(i) THEN MaxInt64 ELSE LastTime(i)

\* the logs of no two candidates overlap in time
DisjointSpans ==
    \A i, j \in Spanned : i # j => LastTime(i) < FirstTime(j) \/ LastTime(j) < FirstTime(i)

\* the candidates whose span meets the window
InRequest == {i \in Spanned : SpanEnd(i) >= req[1] /\ SpanBegin(i) <= req[2]}

\* those of them resolveFiles is to return: the last that begins before the
\* window, if any, and those that begin after it
Kept ==
    LET early == {i \in InRequest : SpanBegin(i) < req[1]}
    IN  {i \in InRequest : \A j \in early : SpanBegin(j) <= SpanBegin(i)}

\* the call of resolveFiles returned, ctx never cancelled, the directory read
Returned == res.called /\ ~ctxDone /\ res.err # "readdir"

\* C3: over candidates whose logs do not overlap in time, a call that is not
\* cancelled and reads the directory returns the files whose span [b, e] (e
\* unbounded for a compressed file) meets the window, sorted by b, less those
\* before the last one that begins before the window.
C3_ResolvedList ==
    (Returned /\ DisjointSpans)
        => LET l == res.logFiles
           IN  /\ {l[k].file : k \in 1..Len(l)} = Kept
               /\ Len(l) = Cardinality(Kept)
               /\ \A k \in 1..Len(l) : /\ l[k].begin = SpanBegin(l[k].file)
                                       /\ l[k].end = SpanEnd(l[k].file)
                                       /\ l[k].compressed = Compressed(l[k].file)
               /\ \A k \in 1..(Len(l) - 1) : l[k].begin <= l[k + 1].begin

\* of three files that meet the window, the two from the last one beginning
\* before it were returned
C3_Witness ==
    /\ Returned /\ DisjointSpans
    /\ Cardinality(InRequest) = 3
    /\ Len(res.logFiles) = 2
    /\ res.logFiles[1].begin < req[1]

\* the names of the files of a list over the candidates cands
Names(logFiles, cands) == [k \in 1..Len(logFiles) |-> cands[logFiles[k].file].name]

\* the directory without the candidates that cannot be opened
RECURSIVE Openable(_)
Openable(cands) ==
    IF cands = <<>> THEN <<>>
    ELSE (IF Head(cands).openErr THEN <<>> ELSE <<Head(cands)>>) \o Openable(Tail(cands))

\* C4 as the specification states it: a candidate that cannot be opened is
\* passed over: the call returns the list it returns without that candidate, and
\* no error.
C4_UnopenableSkipped ==
    Returned
        => /\ res.err = ""
           /\ LET rest == Openable(dir)
                  w == walk(NoWalk, rest, 1, FALSE, 0, req)
              IN  \E p \in SortedOrders(w.logFiles) :
                      Names(res.logFiles, dir)
                          = Names(resolveFiles(w, req, FALSE, p).logFiles, rest)

\* C5 as the specification states it: when resolveFiles returns its list, the
\* files it opened and does not return are closed.
C5_OthersClosed ==
    Returned
        => \A h \in DOMAIN files :
               files[h].open => \E k \in 1..Len(res.logFiles) : res.logFiles[k].file = h

\* C16: whatever the candidates, overlapping in time or compressed, and
\* whatever the window, the list resolveFiles returns is sorted by begin in
\* ascending order, and no file of it but the first begins before the window.
C16_SortedOneEarly ==
    res.called
        => LET l == res.logFiles
           IN  /\ \A k \in 1..(Len(l) - 1) : l[k].begin <= l[k + 1].begin
               /\ \A k \in 2..Len(l) : l[k].begin >= req[1]
               /\ Cardinality({k \in 1..Len(l) : l[k].begin < req[1]}) <= 1

\* of candidates that overlap in time, two beginning before the window, a
\* compressed one among them, the list returned holds one that begins before
\* the window, and another file after it
C16_Witness ==
    /\ res.called /\ res.err = ""
    /\ ~DisjointSpans
    /\ Cardinality({i \in InRequest : SpanBegin(i) < req[1]}) >= 2
    /\ \E i \in InRequest : Compressed(i)
    /\ Len(res.logFiles) >= 2
    /\ res.logFiles[1].begin < req[1]

\* C17: when resolveFiles returns the error of a cancelled ctx, seen between
\* two candidates, none of the files it opened is left open: those it had
\* skipped and those it had accepted are closed.
C17_CancelClosesAll ==
    (res.called /\ res.err = "canceled") => \A h \in DOMAIN files : ~files[h].open

\* the handles of the list resolveFiles returned
ReturnedHandles == {res.logFiles[k].file : k \in 1..Len(res.logFiles)}

\* C18: no file of the list resolveFiles returns was closed by it: the files
\* it put on skipFiles, which it closes when it returns, are not in the list,
\* whatever the number of files and the beginning of the window.
C18_ReturnedStayOpen ==
    res.called => \A h \in ReturnedHandles : files[h].open

\* resolveFiles returned a list of files, having closed a file it had accepted
\* and then pruned, and a file it had skipped while walking the directory
C18_Witness ==
    /\ res.called /\ res.err = ""
    /\ ReturnedHandles # {}
    /\ \E h \in InRequest : h \notin ReturnedHandles /\ ~files[h].open
    /\ \E h \in 1..Len(dir) :
          Candidate(h) /\ ~dir[h].openErr /\ h \notin InRequest /\ ~files[h].open

----------------------------------------------------------------------------
(* Properties of readLastLines and readLastValidLog *)

RECURSIVE RawLinesFrom(_, _)
\* the lines of content as readLine reads them forward from offset pos on
RawLinesFrom(content, pos) ==
    LET r == readLine(content, pos)
    IN  IF r.eof THEN <<>> ELSE <<r.line>> \o RawLinesFrom(content, r.pos)

\* the lines of the file, read forward
FileLines == RawLinesFrom(files[1].content, 0)

NotEmpty(line) == line # <<>>

\* the first call of readLastLines was made with the size of the file and
\* returned lines
ScannedFromEnd ==
    /\ scan.on /\ scan.calls = 1 /\ scan.err = "" /\ ~scan.failed
    /\ scan.from = Len(files[1].content)

\* the file has a line, and each of its lines has a log header
AllLinesParse ==
    /\ FileLines # <<>>
    /\ \A k \in 1..Len(FileLines) : ~parseLogItem(FileLines[k]).err

\* the lines returned, the empty ones left out, are the last N lines of the file
ReturnsLastLines ==
    \E N \in 1..Len(FileLines) :
        SelectSeq(scan.lines, NotEmpty) = SubSeq(FileLines, Len(FileLines) - N + 1, Len(FileLines))

\* C12 as the specification states it: on a file whose lines all have a log
\* header, readLastLines called with the size of the file returns the last N
\* lines of the file, for an N of 1 or more, and no part of a line.
C12_TailLines == (ScannedFromEnd /\ AllLinesParse) => ReturnsLastLines

\* no line of the file holds a carriage return
NoInnerCR == \A k \in 1..Len(FileLines) : Index(FileLines[k], "\r") = -1

\* C12: on a file whose lines all have a log header and hold no carriage
\* return but the one a "\r\n" ends them with, readLastLines called with the
\* size of the file returns, besides empty strings, the last N lines of the
\* file in order, for an N of 1 or more, and no part of a line.
C12_TailLinesNoCR == (ScannedFromEnd /\ AllLinesParse /\ NoInnerCR) => ReturnsLastLines

\* the first chunk read began inside a line of such a file, and the lines after
\* it were returned
C12_Witness ==
    /\ ScannedFromEnd /\ AllLinesParse /\ NoInnerCR
    /\ Len(files[1].content) > 512
    /\ scan.cursor > Len(files[1].content) - 512
    /\ Len(SelectSeq(scan.lines, NotEmpty)) >= 1


\* none of the last 10 lines of the file has a log header
LastTenInvalid ==
    /\ Len(FileLines) >= 10
    /\ \A k \in (Len(FileLines) - 9)..Len(FileLines) : parseLogItem(FileLines[k]).err

\* C15: readLastValidLog(ctx, file, 10) gives at most 10 lines of the file to
\* parseLogItem, counted over all its calls of readLastLines (the empty
\* strings readLastLines returns are not counted), and when none of the last
\* 10 lines of the file parses it returns an error, so that the file is skipped.
C15_AtMostTenTried ==
    probe.pc = "done" =>
        /\ LastTenInvalid => probe.err # ""
        /\ probe.parsed <= 10

\* the last call of readLastLines was given a cursor above 0, its seeks and
\* reads succeeded and ctx was not cancelled
ScanReturned ==
    /\ scan.on /\ scan.calls = 1 /\ scan.err = "" /\ ~scan.failed
    /\ scan.from > 0

\* the bytes of the file the last call took: those from scan.from - scan.n to
\* scan.from
Segment == Slice(files[1].content, scan.from - scan.n, scan.from)

\* the offsets (1-based) of the "\n" of s, and the i-th of them
NewlinesOf(s) == {k \in 1..Len(s) : s[k] = "\n"}
NthNewline(s, i) ==
    CHOOSE k \in NewlinesOf(s) : Cardinality({j \in NewlinesOf(s) : j <= k}) = i

\* the i-th of the pieces the "\n" of s cut it into, the piece before a "\r\n"
\* without its '\r'
PieceOf(s, i) ==
    LET lo == IF i = 1 THEN 1 ELSE NthNewline(s, i - 1) + 1
        nl == IF i > Cardinality(NewlinesOf(s)) THEN Len(s) + 1 ELSE NthNewline(s, i)
        hi == IF nl <= Len(s) /\ nl - 1 >= lo /\ s[nl - 1] = "\r" THEN nl - 2 ELSE nl - 1
    IN  SubSeq(s, lo, hi)

\* lines are the pieces of s between its "\n", each "\r\n" taken for a "\n"
LinesOfText(lines, s) ==
    /\ Len(lines) = Cardinality(NewlinesOf(s)) + 1
    /\ \A i \in 1..Len(lines) : lines[i] = PieceOf(s, i)

\* the text returned begins at offset 0 or right after a '\n' or a '\r'
LineAligned == scan.cursor = 0 \/ IsNewline(files[1].content[scan.cursor])

\* C19: a call of readLastLines with a cursor above 0, whose seeks and reads
\* succeed and whose ctx is not cancelled, returns a number of bytes, 1 or
\* more, that is the length of the piece of the file it took, up to the
\* cursor; the lines returned are that piece cut at each "\n", a "\r\n"
\* taken for a "\n"; the piece begins at offset 0 or right after a '\n' or a
\* '\r'; the next call is given the offset where the piece begins, so that
\* the pieces of successive calls follow one another without gap or overlap.
C19_ScanSegments ==
    ScanReturned =>
        /\ scan.n >= 1
        /\ scan.n = Len(Segment)
        /\ LinesOfText(scan.lines, Segment)
        /\ LineAligned
        /\ scan.cursor = scan.from - scan.n /\ scan.cursor >= 0

\* a call that followed another took a piece that holds a "\r\n" and does
\* not begin at offset 0
C19_Witness ==
    /\ ScanReturned
    /\ scan.from < scan.start
    /\ scan.cursor > 0
    /\ IndexCRLF(Segment, 0) # -1

\* a round of the loop of readLastValidLog moves endCursor back or is its last
RoundAdvancesOrEnds ==
    (probe.pc = "run" /\ probe' # probe)
        => \/ probe'.pc = "done"
           \/ probe'.endCursor < probe.endCursor /\ probe'.endCursor >= 0

\* C20: readLastValidLog ends on every file, one without a line terminator,
\* one of line terminators alone and one without a line that parses included:
\* each round of its loop moves endCursor back, towards offset 0, or is the
\* last, and the probe comes to its end.
C20_ProbeTerminates ==
    /\ [][RoundAdvancesOrEnds]_vars
    /\ <>(probe.pc # "run")

\* the probe ended at its third round, having moved endCursor back to offset
\* 0 over a file no line of which parses
C20_Witness ==
    /\ probe.pc = "done"
    /\ probe.rounds >= 3
    /\ probe.endCursor = 0
    /\ probe.err = "not a valid log file"

----------------------------------------------------------------------------
(* Properties of ParseLogLevel *)

\* the string given to ParseLogLevel spells the k-th level name in some case
SpellsLevel(k) == lvl.s \in Spellings(LevelNames[k].name)

\* the string is the k-th level name all in lower case or all in upper case
SpellsLevelExactly(k) == lvl.s \in {LevelNames[k].name, ToUpper(LevelNames[k].name)}

====
